---- MODULE Spec2Model ----
(***************************************************************************)
(* The two launcher scripts of sitewise-mcp-server:                        *)
(*   variant "inherit" : src/unnamed/part_001 (server stdio inherited,     *)
(*                       log on the error stream)                          *)
(*   variant "piped"   : src/bin/sitewise-mcp-server.js (server stdio      *)
(*                       piped, log through console.log)                   *)
(* One behaviour is one invocation of the script.  The model follows the   *)
(* Node.js event loop: listeners run to completion; a failed spawn emits   *)
(* 'error' from process.nextTick and then, in the same call, 'close' with  *)
(* the negative errno; the nextTick queue drains before promise            *)
(* continuations (the awaits of main), which run before any I/O event      *)
(* (a child's exit or close, a signal).  Signals are those received once   *)
(* runServer has registered its handlers.                                  *)
(***************************************************************************)
EXTENDS Integers, Sequences, FiniteSets, TLC

VARIABLES
    variant,            \* which launcher script runs
    argv,               \* process.argv.slice(2)
    serverExists,       \* fs.existsSync(serverPath)
    envFile,            \* the .env file of the working directory: whether it exists, its text
    processEnv,         \* process.env
    requirementsExists, \* fs.existsSync(requirementsPath)
    pc,                 \* where main is: init, awaitCheck, awaitInstall, awaitServer, returned
    pythonCmd,          \* main's const pythonCmd ("" before it is bound)
    children,           \* every ChildProcess spawned, in spawn order
    nextTickQ,          \* children whose failed spawn is queued on process.nextTick
    promise,            \* the promises of checkPython, installDependencies, runServer
    sigHandlers,        \* the process.on listeners: the signal and the child it kills
    received,           \* signals the launcher's listeners have handled
    delivered,          \* signals server.kill has delivered to the server child
    written,            \* what the launcher wrote, and to which stream
    io,                 \* bytes of the server child and of the launcher's standard input
    exit                \* whether the launcher has ended, its status and how

vars == <<variant, argv, serverExists, envFile, processEnv, requirementsExists, pc, pythonCmd, children,
          nextTickQ, promise, sigHandlers, received, delivered, written, io, exit>>

----------------------------------------------------------------------------
(* Bounds *)

MaxArgs == 2
MaxSignals == 2
MaxEnvLen == 5
MaxBytes == 2

Variants == {"inherit", "piped"}
ArgWords == {"--install", "-i", "--help", "-h", "--port"}
Signals == {"SIGINT", "SIGTERM"}

SeqsUpTo(S, n) == UNION {[1..k -> S] : k \in 0..n}

----------------------------------------------------------------------------
(* Exit codes a 'close' listener can receive *)

\* code is null when the child was ended by a signal; 256 is outside 0..255
null == 256
\* the negative errno 'close' carries after a failed spawn
ENOENT == -2
ExitCodes == {0, 1, null}

----------------------------------------------------------------------------
(* Pure helpers *)

Includes(s, x) == \E i \in 1..Len(s) : s[i] = x

\* args.includes('--install') || args.includes('-i')
shouldInstall == Includes(argv, "--install") \/ Includes(argv, "-i")

\* process.argv.includes('--help') || process.argv.includes('-h')
helpRequested == Includes(argv, "--help") \/ Includes(argv, "-h")

\* a filter that forgets the short flag
filteredArgs_KeepsShortFlag == SelectSeq(argv, LAMBDA a : a # "--install")

\* args.filter(arg => !['--install', '-i'].includes(arg))
filteredArgs == SelectSeq(argv, LAMBDA a : a \notin {"--install", "-i"})

\* what runServer passes after the interpreter name
serverArgs == IF variant = "piped" THEN <<"server.py">> \o filteredArgs ELSE <<"server.py">>

\* log(): console.error in part_001, console.log in bin/sitewise-mcp-server.js
logStream == IF variant = "inherit" THEN "stderr" ELSE "stdout"

Error(message, code) == [message |-> message, code |-> code]
NoError == Error("", 0)

Pending == [state |-> "pending", value |-> "", reason |-> NoError]
NotCreated == [state |-> "none", value |-> "", reason |-> NoError]

\* resolve(v): the first settlement of a promise wins
resolve(p, name, v) ==
    IF p[name].state = "pending"
    THEN [p EXCEPT ![name] = [state |-> "resolved", value |-> v, reason |-> NoError]]
    ELSE p

\* reject(e): the first settlement of a promise wins
reject(p, name, e) ==
    IF p[name].state = "pending"
    THEN [p EXCEPT ![name] = [state |-> "rejected", value |-> "", reason |-> e]]
    ELSE p

PythonNotFound ==
    IF variant = "inherit"
    THEN Error("Python no encontrado", 0)
    ELSE Error("Python no esta instalado o no esta en el PATH", 0)

\* spawn(cmd, args, {stdio}) with the listeners attached right after it; without
\* an env option the child gets process.env
Child(role, cmd, args, stdio, listeners, ok) ==
    [role |-> role, cmd |-> cmd, args |-> args, stdio |-> stdio,
     env |-> processEnv,
     listeners |-> listeners,
     status |-> IF ok THEN "running" ELSE "spawnfail",
     code |-> 0]

----------------------------------------------------------------------------
(* Strings are sequences of one-character strings; loadEnvFile *)

Chars == {"a", "=", " ", "'", "\n"}
Whitespace == {" ", "\n"}
Quotes == {"'"}

\* the text before the first occurrence of sep (all of s when there is none)
RECURSIVE UpTo(_, _)
UpTo(s, sep) ==
    IF s = <<>> \/ Head(s) = sep THEN <<>> ELSE <<Head(s)>> \o UpTo(Tail(s), sep)

\* String.prototype.split(sep), sep one character: every piece, in order
RECURSIVE split(_, _)
split(s, sep) ==
    LET first == UpTo(s, sep)
    IN  IF Len(first) = Len(s)
        THEN <<first>>
        ELSE <<first>> \o split(SubSeq(s, Len(first) + 2, Len(s)), sep)

RECURSIVE trimStart(_)
trimStart(s) == IF s # <<>> /\ Head(s) \in Whitespace THEN trimStart(Tail(s)) ELSE s

RECURSIVE trimEnd(_)
trimEnd(s) ==
    IF s # <<>> /\ s[Len(s)] \in Whitespace THEN trimEnd(SubSeq(s, 1, Len(s) - 1)) ELSE s

\* String.prototype.trim()
trim(s) == trimEnd(trimStart(s))

\* .replace(/^["']|["']$/g, ''): one quote off the front, one off the end
stripQuotes(s) ==
    LET a == IF s # <<>> /\ Head(s) \in Quotes THEN Tail(s) ELSE s
    IN  IF a # <<>> /\ a[Len(a)] \in Quotes THEN SubSeq(a, 1, Len(a) - 1) ELSE a

EmptyEnv == [k \in {} |-> <<>>]

\* env[k] = v
Put(env, k, v) == [x \in DOMAIN env \cup {k} |-> IF x = k THEN v ELSE env[x]]

\* { ...a, ...b }
Spread(a, b) == [x \in DOMAIN a \cup DOMAIN b |-> IF x \in DOMAIN b THEN b[x] ELSE a[x]]

\* the body of the forEach: const [key, value] = line.split('='); if (key && value) ...
envLine(env, line) ==
    LET parts == split(line, "=")
        key == parts[1]
        hasValue == Len(parts) >= 2 /\ parts[2] # <<>>
    IN  IF key # <<>> /\ hasValue
        THEN Put(env, trim(key),
                 IF variant = "inherit" THEN stripQuotes(trim(parts[2])) ELSE trim(parts[2]))
        ELSE env

RECURSIVE envLines(_, _)
envLines(env, lines) ==
    IF lines = <<>> THEN env ELSE envLines(envLine(env, Head(lines)), Tail(lines))

\* loadEnvFile()
loadEnvFile ==
    IF envFile.exists THEN envLines(EmptyEnv, split(envFile.text, "\n")) ELSE EmptyEnv

PYTHONUNBUFFERED == <<"P", "Y", "T", "H", "O", "N", "U", "N", "B", "U", "F", "F", "E", "R", "E", "D">>

\* the env option of runServer's spawn
serverEnv ==
    IF variant = "inherit"
    THEN Put(Spread(processEnv, loadEnvFile), PYTHONUNBUFFERED, <<"1">>)
    ELSE Spread(processEnv, loadEnvFile)

NoFile == [exists |-> FALSE, text |-> <<>>]
File(text) == [exists |-> TRUE, text |-> text]

\* the inherited environment of the runs explored: one variable a .env line
\* can name, one it cannot
InheritedEnv == [k \in {<<"a">>, <<"P", "A", "T", "H">>} |-> <<"p">>]

----------------------------------------------------------------------------------
(* The server child's standard streams *)

Fds == {"stdout", "stderr"}

\* wrote[fd]: bytes the server child wrote to its fd
\* shown[fd]: those of them that came out on the launcher's own fd
\* typed:     bytes that arrived on the launcher's standard input
\* read:      those of them the server child can read on its standard input
NoIo == [wrote |-> [fd \in Fds |-> 0], shown |-> [fd \in Fds |-> 0], typed |-> 0, read |-> 0]

\* mutant: runServer pipes the child's streams through
serverPipes_Forwarded == {"stdin", "stdout", "stderr"}

\* the streams of the server child that runServer reads, writes or pipes
\* anywhere: it touches none of server.stdin, server.stdout, server.stderr
serverPipes == {}

----------------------------------------------------------------------
(* Event loop order *)

Alive == ~exit.done

\* a failed spawn has emitted 'error' and its 'close' follows in the same call
SyncPending == \E i \in 1..Len(children) : children[i].status = "errEmitted"

Awaited ==
    CASE pc = "awaitCheck" -> "checkPython"
      [] pc = "awaitInstall" -> "installDependencies"
      [] pc = "awaitServer" -> "runServer"
      [] OTHER -> "none"

MicroPending == Awaited # "none" /\ promise[Awaited].state \in {"resolved", "rejected"}

CanTick == Alive /\ ~SyncPending /\ nextTickQ # <<>>
CanMicro == Alive /\ ~SyncPending /\ nextTickQ = <<>> /\ MicroPending
CanMacro == Alive /\ pc # "init" /\ ~SyncPending /\ nextTickQ = <<>> /\ ~MicroPending

\* 'close' is due: right after the 'error' of a failed spawn, or as an I/O event
CloseDue(i) ==
    \/ Alive /\ children[i].status = "errEmitted"
    \/ CanMacro /\ children[i].status = "exited"

\* 'error' is due: the child's failed spawn is at the head of the nextTick queue
ErrorDue(i) == CanTick /\ Head(nextTickQ) = i /\ children[i].status = "spawnfail"

Closed(i) == [children EXCEPT ![i].status = "closed"]
ErrEmitted(i) == [children EXCEPT ![i].status = "errEmitted", ![i].code = ENOENT]

----------------------------------------------------------------------------
Init ==
    /\ variant \in Variants
    /\ argv \in SeqsUpTo(ArgWords, MaxArgs)
    /\ serverExists \in BOOLEAN
    /\ requirementsExists \in BOOLEAN
    /\ envFile = File(<<"a", "=", "a">>)
    /\ processEnv = InheritedEnv
    /\ pc = "init"
    /\ pythonCmd = ""
    /\ children = <<>>
    /\ nextTickQ = <<>>
    /\ promise = [n \in {"checkPython", "installDependencies", "runServer"} |-> NotCreated]
    /\ sigHandlers = <<>>
    /\ received = <<>>
    /\ delivered = <<>>
    /\ written = {}
    /\ io = NoIo
    /\ exit = [done |-> FALSE, code |-> 0, how |-> "none"]


----------------------------------------------------------------------------
(* Module level and main, up to its first await *)

Exit(code, how) == [done |-> TRUE, code |-> code, how |-> how]

\* log(...) of the launcher: an informational line
info(text) == [stream |-> logStream, level |-> "info", text |-> text, code |-> 0]

\* the catch block of main: log(`ERROR: ${error.message}`)
report(e) == [stream |-> logStream, level |-> "error", text |-> e.message, code |-> e.code]

\* the usage text: console.error in part_001, log in bin/sitewise-mcp-server.js
usage ==
    IF variant = "inherit"
    THEN {[stream |-> "stderr", level |-> "info", text |-> t, code |-> 0] :
            t \in {"SiteWise MCP Server", "Uso: npx sitewise-mcp-server [--install]",
                   "--install: Instalar dependencias Python"}}
    ELSE {info(t) : t \in {"SiteWise MCP Server", "========================", "", "Uso:",
                           "npx sitewise-mcp-server [opciones]", "Opciones:",
                           "-h, --help", "-i, --install", "Ejemplos:", "Configuracion:"}}

\* what main writes before it checks server.py
banner ==
    IF variant = "piped"
    THEN {info("SiteWise MCP Server"), info("========================")}
    ELSE {}

ServerMissing ==
    IF variant = "inherit"
    THEN Error("server.py no encontrado", 0)
    ELSE Error("No se encontro server.py", 0)

\* if (process.argv.includes('--help') || ...) { ...; process.exit(0) }
Help ==
    /\ Alive /\ pc = "init"
    /\ helpRequested
    /\ written' = written \cup usage
    /\ exit' = Exit(0, "process.exit")
    /\ UNCHANGED <<variant, argv, serverExists, envFile, processEnv, requirementsExists, io, pc, pythonCmd,
                   children, nextTickQ, promise, sigHandlers, received, delivered>>

\* main: server.py is missing, the throw lands in main's own catch
MainServerMissing ==
    /\ Alive /\ pc = "init"
    /\ ~helpRequested
    /\ ~serverExists
    /\ written' = written \cup banner \cup {report(ServerMissing)}
    /\ exit' = Exit(1, "process.exit")
    /\ UNCHANGED <<variant, argv, serverExists, envFile, processEnv, requirementsExists, io, pc, pythonCmd,
                   children, nextTickQ, promise, sigHandlers, received, delivered>>

\* main up to `await checkPython()`: checkPython spawns python3 --version
\* mutant: checkPython is started before the server file is looked for
MainCheckPython_NoExistsCheck ==
    /\ Alive /\ pc = "init"
    /\ ~helpRequested
    /\ written' = written \cup banner \cup
                    (IF variant = "piped" THEN {info("Verificando Python...")} ELSE {})
    /\ \E ok \in BOOLEAN :
          /\ children' = Append(children,
                 Child("python", "python3", <<"--version">>, "pipe", {"close", "error"}, ok))
          /\ nextTickQ' = IF ok THEN nextTickQ ELSE Append(nextTickQ, Len(children) + 1)
    /\ promise' = [promise EXCEPT !["checkPython"] = Pending]
    /\ pc' = "awaitCheck"
    /\ UNCHANGED <<variant, argv, serverExists, envFile, processEnv, requirementsExists, io, pythonCmd,
                   sigHandlers, received, delivered, exit>>

MainCheckPython ==
    /\ Alive /\ pc = "init"
    /\ ~helpRequested
    /\ serverExists
    /\ written' = written \cup banner \cup
                    (IF variant = "piped" THEN {info("Verificando Python...")} ELSE {})
    /\ \E ok \in BOOLEAN :
          /\ children' = Append(children,
                 Child("python", "python3", <<"--version">>, "pipe", {"close", "error"}, ok))
          /\ nextTickQ' = IF ok THEN nextTickQ ELSE Append(nextTickQ, Len(children) + 1)
    /\ promise' = [promise EXCEPT !["checkPython"] = Pending]
    /\ pc' = "awaitCheck"
    /\ UNCHANGED <<variant, argv, serverExists, envFile, processEnv, requirementsExists, io, pythonCmd,
                   sigHandlers, received, delivered, exit>>

----------------------------------------------------------------------------
(* checkPython's listeners *)

\* mutant: the fallback spawn is not under an else
PythonOnClose_NoElse(i) ==
    /\ children[i].role = "python"
    /\ CloseDue(i)
    /\ promise' = IF children[i].code = 0
                  THEN resolve(promise, "checkPython", "python3") ELSE promise
    /\ \E ok \in BOOLEAN :
          /\ children' = Append(Closed(i),
                 Child("pythonAlt", "python", <<"--version">>, "pipe", {"close"}, ok))
          /\ nextTickQ' = IF ok THEN nextTickQ ELSE Append(nextTickQ, Len(children) + 1)
    /\ UNCHANGED <<variant, argv, serverExists, envFile, processEnv, requirementsExists, io, pc, pythonCmd,
                   sigHandlers, received, delivered, written, exit>>

\* python.on('close', (code) => ...)
PythonOnClose(i) ==
    /\ children[i].role = "python"
    /\ CloseDue(i)
    /\ IF children[i].code = 0
       THEN /\ promise' = resolve(promise, "checkPython", "python3")
            /\ children' = Closed(i)
            /\ UNCHANGED nextTickQ
       ELSE /\ \E ok \in BOOLEAN :
                 /\ children' = Append(Closed(i),
                        Child("pythonAlt", "python", <<"--version">>, "pipe", {"close"}, ok))
                 /\ nextTickQ' = IF ok THEN nextTickQ
                                 ELSE Append(nextTickQ, Len(children) + 1)
            /\ UNCHANGED promise
    /\ UNCHANGED <<variant, argv, serverExists, envFile, processEnv, requirementsExists, io, pc, pythonCmd,
                   sigHandlers, received, delivered, written, exit>>

\* python.on('error', () => ...)
PythonOnError(i) ==
    /\ children[i].role = "python"
    /\ ErrorDue(i)
    /\ \E ok \in BOOLEAN :
          /\ children' = Append(ErrEmitted(i),
                 Child("pythonAlt", "python", <<"--version">>, "pipe", {"close", "error"}, ok))
          /\ nextTickQ' = IF ok THEN Tail(nextTickQ)
                          ELSE Append(Tail(nextTickQ), Len(children) + 1)
    /\ UNCHANGED <<variant, argv, serverExists, envFile, processEnv, requirementsExists, io, pc, pythonCmd,
                   promise, sigHandlers, received, delivered, written, exit>>

\* mutant: the secondary resolves to the primary's name
AltOnClose_WrongName(i) ==
    /\ children[i].role = "pythonAlt"
    /\ CloseDue(i)
    /\ promise' = IF children[i].code = 0
                  THEN resolve(promise, "checkPython", "python3")
                  ELSE reject(promise, "checkPython", PythonNotFound)
    /\ children' = Closed(i)
    /\ UNCHANGED <<variant, argv, serverExists, envFile, processEnv, requirementsExists, io, pc, pythonCmd,
                   nextTickQ, sigHandlers, received, delivered, written, exit>>

\* mutant: a failed fallback query settles nothing
AltOnClose_NoReject(i) ==
    /\ children[i].role = "pythonAlt"
    /\ CloseDue(i)
    /\ promise' = IF children[i].code = 0
                  THEN resolve(promise, "checkPython", "python")
                  ELSE promise
    /\ children' = Closed(i)
    /\ UNCHANGED <<variant, argv, serverExists, envFile, processEnv, requirementsExists, io, pc, pythonCmd,
                   nextTickQ, sigHandlers, received, delivered, written, exit>>

\* pythonAlt.on('close', (altCode) => ...), in either branch
AltOnClose(i) ==
    /\ children[i].role = "pythonAlt"
    /\ CloseDue(i)
    /\ promise' = IF children[i].code = 0
                  THEN resolve(promise, "checkPython", "python")
                  ELSE reject(promise, "checkPython", PythonNotFound)
    /\ children' = Closed(i)
    /\ UNCHANGED <<variant, argv, serverExists, envFile, processEnv, requirementsExists, io, pc, pythonCmd,
                   nextTickQ, sigHandlers, received, delivered, written, exit>>

\* pythonAlt.on('error', () => ...), attached in the 'error' branch only
AltOnError(i) ==
    /\ children[i].role = "pythonAlt"
    /\ "error" \in children[i].listeners
    /\ ErrorDue(i)
    /\ promise' = reject(promise, "checkPython", PythonNotFound)
    /\ children' = ErrEmitted(i)
    /\ nextTickQ' = Tail(nextTickQ)
    /\ UNCHANGED <<variant, argv, serverExists, envFile, processEnv, requirementsExists, io, pc, pythonCmd,
                   sigHandlers, received, delivered, written, exit>>

\* an 'error' event with no listener is thrown: Node prints it on stderr and
\* ends the process with status 1
UnhandledError(i) ==
    /\ "error" \notin children[i].listeners
    /\ ErrorDue(i)
    /\ children' = ErrEmitted(i)
    /\ nextTickQ' = Tail(nextTickQ)
    /\ written' = written \cup {[stream |-> "stderr", level |-> "uncaught",
                                 text |-> "spawn ENOENT", code |-> ENOENT]}
    /\ exit' = Exit(1, "uncaught")
    /\ UNCHANGED <<variant, argv, serverExists, envFile, processEnv, requirementsExists, io, pc, pythonCmd,
                   promise, sigHandlers, received, delivered>>


----------------------------------------------------------------------------
(* main after an await *)

ManifestMissing ==
    IF variant = "inherit"
    THEN Error("requirements.txt no encontrado", 0)
    ELSE Error("No se encontro requirements.txt", 0)

\* the catch block of main: log the error, process.exit(1)
MainCatch ==
    /\ CanMicro
    /\ promise[Awaited].state = "rejected"
    /\ written' = written \cup {report(promise[Awaited].reason)}
    /\ exit' = Exit(1, "process.exit")
    /\ UNCHANGED <<variant, argv, serverExists, envFile, processEnv, requirementsExists, io, pc, pythonCmd,
                   children, nextTickQ, promise, sigHandlers, received, delivered>>

\* mutant: requirements.txt is not checked before pip is spawned
MainInstall_NoExistsCheck ==
    /\ CanMicro
    /\ pc = "awaitCheck"
    /\ promise["checkPython"].state = "resolved"
    /\ shouldInstall
    /\ pythonCmd' = promise["checkPython"].value
    /\ pc' = "awaitInstall"
    /\ promise' = [promise EXCEPT !["installDependencies"] = Pending]
    /\ written' = written \cup
          (IF variant = "piped"
           THEN {info("Python encontrado"), info("Instalando dependencias de Python...")}
           ELSE {info("Instalando dependencias...")})
    /\ \E ok \in BOOLEAN :
          /\ children' = Append(children,
                 Child("pip", pythonCmd',
                       <<"-m", "pip", "install", "-r", "requirements.txt">>,
                       IF variant = "piped" THEN "inherit" ELSE "pipe,pipe,inherit",
                       {"close", "error"}, ok))
          /\ nextTickQ' = IF ok THEN nextTickQ ELSE Append(nextTickQ, Len(children) + 1)
    /\ UNCHANGED <<variant, argv, serverExists, envFile, processEnv, requirementsExists, io,
                   sigHandlers, received, delivered, exit>>

\* const pythonCmd = await checkPython(), then installDependencies(pythonCmd, srcDir)
MainInstall ==
    /\ CanMicro
    /\ pc = "awaitCheck"
    /\ promise["checkPython"].state = "resolved"
    /\ shouldInstall
    /\ pythonCmd' = promise["checkPython"].value
    /\ pc' = "awaitInstall"
    /\ IF ~requirementsExists
       THEN /\ promise' = [promise EXCEPT !["installDependencies"] =
                              [state |-> "rejected", value |-> "", reason |-> ManifestMissing]]
            /\ written' = written \cup
                  (IF variant = "piped"
                   THEN {info("Python encontrado"), info("Instalando dependencias de Python...")}
                   ELSE {})
            /\ UNCHANGED <<children, nextTickQ>>
       ELSE /\ promise' = [promise EXCEPT !["installDependencies"] = Pending]
            /\ written' = written \cup
                  (IF variant = "piped"
                   THEN {info("Python encontrado"), info("Instalando dependencias de Python...")}
                   ELSE {info("Instalando dependencias...")})
            /\ \E ok \in BOOLEAN :
                  /\ children' = Append(children,
                         Child("pip", pythonCmd',
                               <<"-m", "pip", "install", "-r", "requirements.txt">>,
                               IF variant = "piped" THEN "inherit" ELSE "pipe,pipe,inherit",
                               {"close", "error"}, ok))
                  /\ nextTickQ' = IF ok THEN nextTickQ ELSE Append(nextTickQ, Len(children) + 1)
    /\ UNCHANGED <<variant, argv, serverExists, envFile, processEnv, requirementsExists, io,
                   sigHandlers, received, delivered, exit>>

\* mutant: installDependencies is called without await, the server follows at once
MainRunServer_InstallNotAwaited ==
    /\ Alive /\ ~SyncPending /\ nextTickQ = <<>>
    /\ \/ pc = "awaitCheck" /\ promise["checkPython"].state = "resolved" /\ ~shouldInstall
       \/ pc = "awaitInstall" /\ promise["installDependencies"].state # "rejected"
    /\ pythonCmd' = promise["checkPython"].value
    /\ pc' = "awaitServer"
    /\ promise' = [promise EXCEPT !["runServer"] = Pending]
    /\ written' = written \cup
          (IF variant = "piped"
           THEN (IF pc = "awaitCheck" THEN {info("Python encontrado")} ELSE {})
                \cup {info("Iniciando SiteWise MCP Server...")}
                \cup (IF envFile.exists
                      THEN {info("Variables de entorno cargadas desde .env")} ELSE {})
           ELSE {info("Iniciando servidor...")})
    /\ \E ok \in BOOLEAN :
          /\ children' = Append(children,
                 [Child("server", pythonCmd', serverArgs,
                        IF variant = "piped" THEN "pipe" ELSE "inherit",
                        {"close", "error"}, ok) EXCEPT !.env = serverEnv])
          /\ nextTickQ' = IF ok THEN nextTickQ ELSE Append(nextTickQ, Len(children) + 1)
    /\ sigHandlers' = sigHandlers \o
          <<[signal |-> "SIGINT", kills |-> "SIGINT", child |-> Len(children) + 1],
            [signal |-> "SIGTERM", kills |-> "SIGTERM", child |-> Len(children) + 1]>>
    /\ UNCHANGED <<variant, argv, serverExists, envFile, processEnv, requirementsExists, io,
                   received, delivered, exit>>

\* runServer(pythonCmd, serverPath[, filteredArgs]) once the awaits before it resolved
MainRunServer ==
    /\ CanMicro
    /\ \/ pc = "awaitCheck" /\ promise["checkPython"].state = "resolved" /\ ~shouldInstall
       \/ pc = "awaitInstall" /\ promise["installDependencies"].state = "resolved"
    /\ pythonCmd' = promise["checkPython"].value
    /\ pc' = "awaitServer"
    /\ promise' = [promise EXCEPT !["runServer"] = Pending]
    /\ written' = written \cup
          (IF variant = "piped"
           THEN (IF pc = "awaitCheck" THEN {info("Python encontrado")} ELSE {})
                \cup {info("Iniciando SiteWise MCP Server...")}
                \cup (IF envFile.exists
                      THEN {info("Variables de entorno cargadas desde .env")} ELSE {})
           ELSE {info("Iniciando servidor...")})
    /\ \E ok \in BOOLEAN :
          /\ children' = Append(children,
                 [Child("server", pythonCmd', serverArgs,
                        IF variant = "piped" THEN "pipe" ELSE "inherit",
                        {"close", "error"}, ok) EXCEPT !.env = serverEnv])
          /\ nextTickQ' = IF ok THEN nextTickQ ELSE Append(nextTickQ, Len(children) + 1)
    /\ sigHandlers' = sigHandlers \o
          <<[signal |-> "SIGINT", kills |-> "SIGINT", child |-> Len(children) + 1],
            [signal |-> "SIGTERM", kills |-> "SIGTERM", child |-> Len(children) + 1]>>
    /\ UNCHANGED <<variant, argv, serverExists, envFile, processEnv, requirementsExists, io,
                   received, delivered, exit>>

\* await runServer(...) resolved: main returns
MainReturn ==
    /\ CanMicro
    /\ pc = "awaitServer"
    /\ promise["runServer"].state = "resolved"
    /\ pc' = "returned"
    /\ UNCHANGED <<variant, argv, serverExists, envFile, processEnv, requirementsExists, io, pythonCmd, children,
                   nextTickQ, promise, sigHandlers, received, delivered, written, exit>>

----------------------------------------------------------------------------
(* installDependencies' and runServer's listeners *)

\* mutant: the installer's exit code is not looked at
PipOnClose_IgnoresCode(i) ==
    /\ children[i].role = "pip"
    /\ CloseDue(i)
    /\ promise' = resolve(promise, "installDependencies", "")
    /\ written' = written \cup
          (IF children[i].code = 0 /\ variant = "piped"
           THEN {info("Dependencias instaladas correctamente")} ELSE {})
    /\ children' = Closed(i)
    /\ UNCHANGED <<variant, argv, serverExists, envFile, processEnv, requirementsExists, io, pc, pythonCmd,
                   nextTickQ, sigHandlers, received, delivered, exit>>

\* pip.on('close', (code) => ...)
PipOnClose(i) ==
    /\ children[i].role = "pip"
    /\ CloseDue(i)
    /\ promise' = IF children[i].code = 0
                  THEN resolve(promise, "installDependencies", "")
                  ELSE reject(promise, "installDependencies",
                              Error("Error instalando dependencias", children[i].code))
    /\ written' = written \cup
          (IF children[i].code = 0 /\ variant = "piped"
           THEN {info("Dependencias instaladas correctamente")} ELSE {})
    /\ children' = Closed(i)
    /\ UNCHANGED <<variant, argv, serverExists, envFile, processEnv, requirementsExists, io, pc, pythonCmd,
                   nextTickQ, sigHandlers, received, delivered, exit>>

\* pip.on('error', (err) => ...)
PipOnError(i) ==
    /\ children[i].role = "pip"
    /\ ErrorDue(i)
    /\ promise' = reject(promise, "installDependencies", Error("Error pip", ENOENT))
    /\ children' = ErrEmitted(i)
    /\ nextTickQ' = Tail(nextTickQ)
    /\ UNCHANGED <<variant, argv, serverExists, envFile, processEnv, requirementsExists, io, pc, pythonCmd,
                   sigHandlers, received, delivered, written, exit>>

\* mutant: the server's exit code is not looked at
ServerOnClose_IgnoresCode(i) ==
    /\ children[i].role = "server"
    /\ CloseDue(i)
    /\ promise' = resolve(promise, "runServer", "")
    /\ written' = written \cup
          (IF children[i].code = 0 /\ variant = "piped"
           THEN {info("Servidor cerrado correctamente")} ELSE {})
    /\ children' = Closed(i)
    /\ UNCHANGED <<variant, argv, serverExists, envFile, processEnv, requirementsExists, io, pc, pythonCmd,
                   nextTickQ, sigHandlers, received, delivered, exit>>

\* mutant: the test is `!code`, a null code passes for success
ServerOnClose_NullIsSuccess(i) ==
    /\ children[i].role = "server"
    /\ CloseDue(i)
    /\ promise' = IF children[i].code \in {0, null}
                  THEN resolve(promise, "runServer", "")
                  ELSE reject(promise, "runServer",
                              Error("Servidor terminado", children[i].code))
    /\ written' = written \cup
          (IF children[i].code = 0 /\ variant = "piped"
           THEN {info("Servidor cerrado correctamente")} ELSE {})
    /\ children' = Closed(i)
    /\ UNCHANGED <<variant, argv, serverExists, envFile, processEnv, requirementsExists, io, pc, pythonCmd,
                   nextTickQ, sigHandlers, received, delivered, exit>>

\* server.on('close', (code) => ...)
ServerOnClose(i) ==
    /\ children[i].role = "server"
    /\ CloseDue(i)
    /\ promise' = IF children[i].code = 0
                  THEN resolve(promise, "runServer", "")
                  ELSE reject(promise, "runServer",
                              Error("Servidor terminado", children[i].code))
    /\ written' = written \cup
          (IF children[i].code = 0 /\ variant = "piped"
           THEN {info("Servidor cerrado correctamente")} ELSE {})
    /\ children' = Closed(i)
    /\ UNCHANGED <<variant, argv, serverExists, envFile, processEnv, requirementsExists, io, pc, pythonCmd,
                   nextTickQ, sigHandlers, received, delivered, exit>>

\* server.on('error', (err) => ...)
ServerOnError(i) ==
    /\ children[i].role = "server"
    /\ ErrorDue(i)
    /\ promise' = reject(promise, "runServer", Error("Error servidor", ENOENT))
    /\ children' = ErrEmitted(i)
    /\ nextTickQ' = Tail(nextTickQ)
    /\ UNCHANGED <<variant, argv, serverExists, envFile, processEnv, requirementsExists, io, pc, pythonCmd,
                   sigHandlers, received, delivered, written, exit>>

----------------------------------------------------------------------------
(* Signals, children ending, the launcher ending *)

\* mutant: both listeners pass SIGTERM
KillsOf_AlwaysSIGTERM(sig) ==
    LET ls == SelectSeq(sigHandlers,
                  LAMBDA h : h.signal = sig /\ children[h.child].status = "running")
    IN  [k \in 1..Len(ls) |-> "SIGTERM"]

\* the signals the process.on listeners of `sig` pass to server.kill; kill
\* delivers only while the child has not exited
KillsOf(sig) ==
    LET ls == SelectSeq(sigHandlers,
                  LAMBDA h : h.signal = sig /\ children[h.child].status = "running")
    IN  [k \in 1..Len(ls) |-> ls[k].kills]

\* mutant: the listener ends the launcher itself after the kill
OnSignal_Exits(sig) ==
    /\ CanMacro
    /\ \E k \in 1..Len(sigHandlers) : sigHandlers[k].signal = sig
    /\ Len(received) < MaxSignals
    /\ received' = Append(received,
           [signal |-> sig,
            active |-> \E k \in 1..Len(sigHandlers) :
                          children[sigHandlers[k].child].status = "running"])
    /\ delivered' = delivered \o KillsOf(sig)
    /\ written' = written \cup
          (IF variant = "piped" THEN {info("Cerrando servidor...")} ELSE {})
    /\ exit' = Exit(0, "process.exit")
    /\ UNCHANGED <<variant, argv, serverExists, envFile, processEnv, requirementsExists, io, pc, pythonCmd,
                   children, nextTickQ, promise, sigHandlers>>

\* process.on('SIGINT' | 'SIGTERM', () => { server.kill(...) })
OnSignal(sig) ==
    /\ CanMacro
    /\ \E k \in 1..Len(sigHandlers) : sigHandlers[k].signal = sig
    /\ Len(received) < MaxSignals
    /\ received' = Append(received,
           [signal |-> sig,
            active |-> \E k \in 1..Len(sigHandlers) :
                          children[sigHandlers[k].child].status = "running"])
    /\ delivered' = delivered \o KillsOf(sig)
    /\ written' = written \cup
          (IF variant = "piped" THEN {info("Cerrando servidor...")} ELSE {})
    /\ UNCHANGED <<variant, argv, serverExists, envFile, processEnv, requirementsExists, io, pc, pythonCmd,
                   children, nextTickQ, promise, sigHandlers, exit>>

\* a running child ends with an exit code, or by a signal (code null)
ChildExit(i, code) ==
    /\ CanMacro
    /\ children[i].status = "running"
    /\ children' = [children EXCEPT ![i].status = "exited", ![i].code = code]
    /\ UNCHANGED <<variant, argv, serverExists, envFile, processEnv, requirementsExists, io, pc, pythonCmd,
                   nextTickQ, promise, sigHandlers, received, delivered, written, exit>>

\* nothing keeps the event loop alive: Node ends the process with status 0
NaturalExit ==
    /\ CanMacro
    /\ \A i \in 1..Len(children) : children[i].status = "closed"
    /\ exit' = Exit(0, "natural")
    /\ UNCHANGED <<variant, argv, serverExists, envFile, processEnv, requirementsExists, io, pc, pythonCmd,
                   children, nextTickQ, promise, sigHandlers, received, delivered, written>>

----------------------------------------------------------------------------
Next ==
    \/ Help
    \/ MainServerMissing
    \/ MainCheckPython
    \/ MainCatch
    \/ MainInstall
    \/ MainRunServer
    \/ MainReturn
    \/ NaturalExit
    \/ \E sig \in Signals : OnSignal(sig)
    \/ \E i \in 1..Len(children) : PythonOnClose(i)
    \/ \E i \in 1..Len(children) : PythonOnError(i)
    \/ \E i \in 1..Len(children) : AltOnClose(i)
    \/ \E i \in 1..Len(children) : AltOnError(i)
    \/ \E i \in 1..Len(children) : UnhandledError(i)
    \/ \E i \in 1..Len(children) : PipOnClose(i)
    \/ \E i \in 1..Len(children) : PipOnError(i)
    \/ \E i \in 1..Len(children) : ServerOnClose(i)
    \/ \E i \in 1..Len(children) : ServerOnError(i)
    \/ \E i \in 1..Len(children), code \in ExitCodes : ChildExit(i, code)

Spec == Init /\ [][Next]_vars

----------------------------------------------------------------------------
(* Termination: the event loop runs whatever is ready, and every running
   subprocess ends at some time; nothing obliges a signal to arrive *)

\* a callback or continuation of the launcher that is ready to run
LauncherStep ==
    \/ Help
    \/ MainServerMissing
    \/ MainCheckPython
    \/ MainCatch
    \/ MainInstall
    \/ MainRunServer
    \/ MainReturn
    \/ NaturalExit
    \/ \E i \in 1..Len(children) : PythonOnClose(i)
    \/ \E i \in 1..Len(children) : PythonOnError(i)
    \/ \E i \in 1..Len(children) : AltOnClose(i)
    \/ \E i \in 1..Len(children) : AltOnError(i)
    \/ \E i \in 1..Len(children) : UnhandledError(i)
    \/ \E i \in 1..Len(children) : PipOnClose(i)
    \/ \E i \in 1..Len(children) : PipOnError(i)
    \/ \E i \in 1..Len(children) : ServerOnClose(i)
    \/ \E i \in 1..Len(children) : ServerOnError(i)

\* some running subprocess ends
ChildEnds == \E i \in 1..Len(children), code \in ExitCodes : ChildExit(i, code)

LiveInit ==
    /\ variant \in Variants
    /\ argv \in {<<>>, <<"--install">>, <<"--help">>}
    /\ serverExists \in BOOLEAN
    /\ requirementsExists \in BOOLEAN
    /\ envFile = NoFile
    /\ processEnv = InheritedEnv
    /\ pc = "init"
    /\ pythonCmd = ""
    /\ children = <<>>
    /\ nextTickQ = <<>>
    /\ promise = [n \in {"checkPython", "installDependencies", "runServer"} |-> NotCreated]
    /\ sigHandlers = <<>>
    /\ received = <<>>
    /\ delivered = <<>>
    /\ written = {}
    /\ io = NoIo
    /\ exit = [done |-> FALSE, code |-> 0, how |-> "none"]

LiveSpec == LiveInit /\ [][Next]_vars /\ WF_vars(LauncherStep) /\ WF_vars(ChildEnds)

----------------------------------------------------------------------------
(* The server at work: what it writes, and what arrives for it *)

\* the running server child writes a byte to its stdout or stderr
ServerWrites(i, fd) ==
    /\ Alive
    /\ children[i].role = "server" /\ children[i].status = "running"
    /\ io.wrote[fd] < MaxBytes
    /\ io' = [io EXCEPT !.wrote[fd] = @ + 1,
                        !.shown[fd] = IF children[i].stdio = "inherit" \/ fd \in serverPipes
                                      THEN @ + 1 ELSE @]
    /\ UNCHANGED <<variant, argv, serverExists, envFile, processEnv, requirementsExists, pc,
                   pythonCmd, children, nextTickQ, promise, sigHandlers, received, delivered,
                   written, exit>>

\* a byte arrives on the launcher's standard input while the server runs
StdinArrives(i) ==
    /\ Alive
    /\ children[i].role = "server" /\ children[i].status = "running"
    /\ io.typed < MaxBytes
    /\ io' = [io EXCEPT !.typed = @ + 1,
                        !.read = IF children[i].stdio = "inherit" \/ "stdin" \in serverPipes
                                 THEN @ + 1 ELSE @]
    /\ UNCHANGED <<variant, argv, serverExists, envFile, processEnv, requirementsExists, pc,
                   pythonCmd, children, nextTickQ, promise, sigHandlers, received, delivered,
                   written, exit>>

IoInit ==
    /\ variant \in Variants
    /\ argv = <<>>
    /\ serverExists = TRUE
    /\ requirementsExists = FALSE
    /\ envFile = NoFile
    /\ processEnv = InheritedEnv
    /\ pc = "init"
    /\ pythonCmd = ""
    /\ children = <<>>
    /\ nextTickQ = <<>>
    /\ promise = [n \in {"checkPython", "installDependencies", "runServer"} |-> NotCreated]
    /\ sigHandlers = <<>>
    /\ received = <<>>
    /\ delivered = <<>>
    /\ written = {}
    /\ io = NoIo
    /\ exit = [done |-> FALSE, code |-> 0, how |-> "none"]

IoNext ==
    \/ MainCheckPython
    \/ \E i \in 1..Len(children), code \in ExitCodes : ChildExit(i, code)
    \/ \E i \in 1..Len(children) : PythonOnClose(i)
    \/ MainRunServer
    \/ \E i \in 1..Len(children), fd \in Fds : ServerWrites(i, fd)
    \/ \E i \in 1..Len(children) : StdinArrives(i)
    \/ \E sig \in Signals : OnSignal(sig)
    \/ \E i \in 1..Len(children) : ServerOnClose(i)
    \/ MainReturn
    \/ MainCatch
    \/ NaturalExit

IoSpec == IoInit /\ [][IoNext]_vars


----------------------------------------------------------------------------
(* The runs that reach runServer directly, over every .env text up to MaxEnvLen *)

EnvFiles == {NoFile} \cup {File(t) : t \in SeqsUpTo(Chars, MaxEnvLen)}

EnvInit ==
    /\ variant \in Variants
    /\ argv = <<>>
    /\ serverExists = TRUE
    /\ requirementsExists = FALSE
    /\ envFile \in EnvFiles
    /\ processEnv = InheritedEnv
    /\ pc = "init"
    /\ pythonCmd = ""
    /\ children = <<>>
    /\ nextTickQ = <<>>
    /\ promise = [n \in {"checkPython", "installDependencies", "runServer"} |-> NotCreated]
    /\ sigHandlers = <<>>
    /\ received = <<>>
    /\ delivered = <<>>
    /\ written = {}
    /\ io = NoIo
    /\ exit = [done |-> FALSE, code |-> 0, how |-> "none"]

EnvNext ==
    \/ MainCheckPython
    \/ \E i \in 1..Len(children), code \in ExitCodes : ChildExit(i, code)
    \/ \E i \in 1..Len(children) : PythonOnClose(i)
    \/ MainRunServer

EnvSpec == EnvInit /\ [][EnvNext]_vars


----------------------------------------------------------------------------
(* Vocabulary of the properties *)

Kids(role) == {i \in 1..Len(children) : children[i].role = role}

Primaries == Kids("python")
Secondaries == Kids("pythonAlt")
Installers == Kids("pip")
Servers == Kids("server")

\* the child's 'close' has been emitted, or (failed spawn) its 'error' has
Failed(i) == children[i].status \in {"errEmitted", "closed"} /\ children[i].code # 0

SpawnFailed(i) == children[i].status \in {"spawnfail", "errEmitted"} \/ children[i].code = ENOENT

ClosedWith(i, code) == children[i].status = "closed" /\ children[i].code = code

PrimaryFailed == \E i \in Primaries : Failed(i)

Resolved(name, v) == promise[name].state = "resolved" /\ promise[name].value = v
Rejected(name, e) == promise[name].state = "rejected" /\ promise[name].reason = e

----------------------------------------------------------------------------
\* C1: whenever the primary candidate python3 --version closes with exit code
\* 0, checkPython resolves to 'python3' and no 'python' version query is ever
\* spawned in that run.
C1_PrimaryWins ==
    \A i \in Primaries :
        /\ children[i].status \in {"exited", "closed"} /\ children[i].code = 0
              => Secondaries = {}
        /\ ClosedWith(i, 0)
              => /\ Resolved("checkPython", "python3")
                 /\ pythonCmd \in {"", "python3"}
                 /\ \A j \in 1..Len(children) : children[j].cmd = "python3"

C1_Witness ==
    /\ \E i \in Primaries : ClosedWith(i, 0)
    /\ \E s \in Servers : children[s].status = "closed"
    /\ exit.done

SecondarySucceeded ==
    /\ \E i \in Secondaries : ClosedWith(i, 0)
    /\ \A i \in Secondaries :
          /\ ~SpawnFailed(i)
          /\ children[i].status \in {"exited", "closed"} => children[i].code = 0

\* C2: whenever the primary candidate has failed (non-zero exit or spawn
\* error) and the secondary candidate python --version exits with code 0,
\* checkPython resolves to 'python' and main goes on to the installer and
\* server steps with that command.
C2_SecondaryWins ==
    PrimaryFailed /\ SecondarySucceeded
        => /\ Resolved("checkPython", "python")
           /\ pc # "awaitCheck" => pc \in {"awaitInstall", "awaitServer", "returned"}
                                   /\ pythonCmd = "python"
           /\ \A j \in Installers \cup Servers : children[j].cmd = "python"
           /\ exit.done => pc # "awaitCheck"

C2_Witness ==
    /\ \E i \in Primaries : children[i].code = ENOENT
    /\ PrimaryFailed /\ SecondarySucceeded
    /\ Installers # {} /\ Servers # {}

BothFailed ==
    /\ PrimaryFailed
    /\ Secondaries # {}
    /\ \A i \in Secondaries : Failed(i)

\* C3 (as claimed): for every combination of failure modes of the two
\* candidates, checkPython rejects with the 'Python not found' error, main
\* reports it and exits with status 1, and no installer or server is spawned.
C3_BothFailReported ==
    BothFailed
        => /\ Rejected("checkPython", PythonNotFound)
           /\ Installers = {} /\ Servers = {}
           /\ exit.done => /\ exit.how = "process.exit"
                           /\ exit.code = 1
                           /\ report(PythonNotFound) \in written

\* C4 (as claimed): one run spawns the primary version query at most once and
\* the secondary version query at most once.
C4_AtMostTwoQueries ==
    /\ Cardinality(Primaries) <= 1
    /\ Cardinality(Secondaries) <= 1

Running == {i \in 1..Len(children) : children[i].status = "running"}

\* C5 (as claimed): in every reachable state at most one subprocess spawned by
\* the launcher is running, and at most one server process is spawned.
C5_OneChildAtATime ==
    /\ Cardinality(Running) <= 1
    /\ Cardinality(Servers) <= 1


\* C6: when --install or -i is given and requirements.txt exists, the
\* installer (<resolved interpreter> -m pip install -r <manifest>) is spawned
\* at most once, exactly once by the time main awaits it, with the interpreter
\* name checkPython resolved to; and a server is spawned only after that
\* installer has closed with exit code 0.
C6_InstallOnceBeforeServer ==
    shouldInstall /\ requirementsExists
        => /\ Cardinality(Installers) <= 1
           /\ pc \in {"awaitInstall", "awaitServer", "returned"}
                 => Cardinality(Installers) = 1
           /\ \A i \in Installers :
                 /\ Resolved("checkPython", children[i].cmd)
                 /\ children[i].args = <<"-m", "pip", "install", "-r", "requirements.txt">>
           /\ \A s \in Servers :
                 \E i \in Installers : i < s /\ ClosedWith(i, 0)

C6_Witness ==
    /\ shouldInstall /\ requirementsExists
    /\ \E i \in Installers : ClosedWith(i, 0) /\ children[i].cmd = "python"
    /\ Servers # {}

\* C7 (as claimed): when --install or -i is given and requirements.txt does
\* not exist, the run ends with exit status 1 and neither the installer nor
\* the server is ever spawned.
C7_MissingManifestFails ==
    shouldInstall /\ ~requirementsExists
        => /\ Installers = {} /\ Servers = {}
           /\ exit.done => exit.code = 1

\* C7 (amended): the same, when neither --help nor -h is given; and once main
\* has reached the install step the failure is the missing manifest, reported
\* by main's catch.
C7_MissingManifestFailsUnlessHelp ==
    shouldInstall /\ ~requirementsExists /\ ~helpRequested
        => /\ Installers = {} /\ Servers = {}
           /\ exit.done => exit.code = 1
           /\ pc = "awaitInstall" => Rejected("installDependencies", ManifestMissing)
           /\ pc \notin {"awaitServer", "returned"}

C7_Witness ==
    /\ shouldInstall /\ ~requirementsExists /\ ~helpRequested
    /\ pc = "awaitInstall"
    /\ exit.done /\ exit.code = 1
    /\ report(ManifestMissing) \in written

WhileActive == SelectSeq(received, LAMBDA r : r.active)

\* C8: while the server child is running, each SIGINT or SIGTERM the launcher
\* receives is delivered to the child exactly once, as that same signal, and
\* nothing else is ever sent to the child.
C8_SignalForwardedOnce ==
    /\ Len(delivered) = Len(WhileActive)
    /\ \A k \in 1..Len(delivered) : delivered[k] = WhileActive[k].signal

C8_Witness ==
    /\ \E k \in 1..Len(received) : received[k].active /\ received[k].signal = "SIGINT"
    /\ \E k \in 1..Len(received) : ~received[k].active
    /\ delivered = <<"SIGINT">>

AnyFailure ==
    \/ \E n \in DOMAIN promise : promise[n].state = "rejected"
    \/ exit.how = "uncaught"
    \/ ~serverExists /\ ~helpRequested

\* every failure ends the launcher with status 1, and a failure is final:
\* nothing is spawned after a promise main awaits has rejected
FailureIsFinal ==
    /\ exit.done /\ AnyFailure => exit.code = 1
    /\ promise["checkPython"].state = "rejected" => Installers = {} /\ Servers = {}
    /\ promise["installDependencies"].state = "rejected" => Servers = {}
    /\ Cardinality(Installers) <= 1 /\ Cardinality(Servers) <= 1

CleanShutdown ==
    /\ Resolved("runServer", "")
    /\ \E s \in Servers : ClosedWith(s, 0)

\* C9 (as claimed): status 1 on every failure kind, status 0 only when the
\* server child has closed with exit code 0, no failure retried or recovered.
C9_ExitStatus ==
    /\ FailureIsFinal
    /\ exit.done /\ exit.code = 0 => CleanShutdown

\* C9 (amended): status 0 only when the server child has closed with exit code
\* 0 or when --help or -h was given.
C9_ExitStatusOrHelp ==
    /\ FailureIsFinal
    /\ exit.done => exit.code \in {0, 1}
    /\ exit.done /\ exit.code = 0 => CleanShutdown \/ (helpRequested /\ children = <<>>)

C9_Witness ==
    /\ exit.done /\ exit.code = 0
    /\ CleanShutdown
    /\ Installers # {}

\* C10 (as claimed): everything the launcher itself writes goes to the error
\* stream; it never writes to its standard output, in either variant.
C10_NeverStdout == \A w \in written : w.stream = "stderr"


----------------------------------------------------------------------------
(* The .env file as the specification reads it: KEY=VALUE, one per line *)

envTextLines == split(envFile.text, "\n")

keyOf(line) == trim(UpTo(line, "="))

\* everything after the first '='
rawValueOf(line) == SubSeq(line, Len(UpTo(line, "=")) + 2, Len(line))

valueOf(line) ==
    IF variant = "inherit" THEN stripQuotes(trim(rawValueOf(line))) ELSE trim(rawValueOf(line))

\* the line has both a key and a value
KeyValue(line) ==
    /\ \E i \in 1..Len(line) : line[i] = "="
    /\ keyOf(line) # <<>>
    /\ trim(rawValueOf(line)) # <<>>

\* the KEY=VALUE lines, by position; a later line for the same key wins
Entries == {n \in 1..Len(envTextLines) : envFile.exists /\ KeyValue(envTextLines[n])}
Last(n) == \A m \in Entries : keyOf(envTextLines[m]) = keyOf(envTextLines[n]) => m <= n

\* C11 (as claimed): the server child's environment is process.env overlaid
\* with the .env entries: every KEY=VALUE line maps KEY to VALUE (trimmed,
\* quotes stripped in the inherited-stdio variant), overriding an inherited
\* variable of that name, and a line without both a key and a value
\* contributes no entry.
C11_EnvOverlay ==
    \A s \in Servers :
        LET e == children[s].env IN
        /\ \A n \in Entries :
              Last(n) => /\ keyOf(envTextLines[n]) \in DOMAIN e
                         /\ e[keyOf(envTextLines[n])] = valueOf(envTextLines[n])
        /\ \A k \in DOMAIN e :
              \/ \E n \in Entries : keyOf(envTextLines[n]) = k
              \/ k \in DOMAIN processEnv /\ e[k] = processEnv[k]
              \/ variant = "inherit" /\ k = PYTHONUNBUFFERED

----------------------------------------------------------------------------
(* The help path *)

\* C12 (as claimed): with --help or -h anywhere among the arguments the
\* launcher spawns no subprocess and, once it has exited, has exited with
\* status 0 having printed the whole usage text, every line of it on the
\* error stream, whatever the other flags are.
C12_HelpOnStderr ==
    helpRequested =>
        /\ children = <<>>
        /\ exit.done =>
              /\ exit.code = 0
              /\ usage \subseteq written
              /\ \A w \in written : w.stream = "stderr"

----------------------------------------------------------------------------
(* The server's argument vector *)

\* arguments the launcher knows nothing about, two of them so that their
\* order is visible
ServerArgWords == {"--install", "-i", "--port", "--debug"}

MaxServerArgs == 3

\* the launcher up to the spawn of the server, over every argument vector
\* without a help flag
ArgsInit ==
    /\ variant \in Variants
    /\ argv \in SeqsUpTo(ServerArgWords, MaxServerArgs)
    /\ serverExists = TRUE
    /\ envFile = NoFile
    /\ processEnv = InheritedEnv
    /\ requirementsExists = TRUE
    /\ pc = "init"
    /\ pythonCmd = ""
    /\ children = <<>>
    /\ nextTickQ = <<>>
    /\ promise = [checkPython |-> NotCreated, installDependencies |-> NotCreated,
                  runServer |-> NotCreated]
    /\ sigHandlers = <<>>
    /\ received = <<>>
    /\ delivered = <<>>
    /\ written = {}
    /\ io = NoIo
    /\ exit = [done |-> FALSE, code |-> 0, how |-> "none"]

ArgsNext ==
    \/ MainCheckPython
    \/ \E i \in 1..Len(children) : ChildExit(i, 0)
    \/ \E i \in 1..Len(children) : PythonOnClose(i)
    \/ MainInstall
    \/ \E i \in 1..Len(children) : PipOnClose(i)
    \/ MainRunServer

ArgsSpec == ArgsInit /\ [][ArgsNext]_vars

IsInstallFlag(a) == a \in {"--install", "-i"}

\* r is s with the install flags taken out: a strictly increasing choice of
\* positions of s that misses only install flags
Without(s, r) ==
    \E f \in [1..Len(r) -> 1..Len(s)] :
        /\ \A j, k \in 1..Len(r) : j < k => f[j] < f[k]
        /\ \A k \in 1..Len(r) : s[f[k]] = r[k] /\ ~IsInstallFlag(r[k])
        /\ \A n \in 1..Len(s) : (\A k \in 1..Len(r) : f[k] # n) => IsInstallFlag(s[n])

\* C13: in the pass-through variant the server child's arguments are the
\* entry-point path followed by exactly the command-line arguments other than
\* --install and -i, unchanged and in order; in the other variant the server
\* child gets the entry-point path alone.
C13_ServerArgs ==
    \A s \in Servers :
        LET a == children[s].args IN
        /\ a # <<>> /\ Head(a) = "server.py"
        /\ variant = "piped" => Without(argv, Tail(a))
        /\ variant = "inherit" => Tail(a) = <<>>

C13_Witness ==
    /\ variant = "piped"
    /\ argv = <<"--debug", "-i", "--port">>
    /\ \E s \in Servers : children[s].args = <<"server.py", "--debug", "--port">>

----------------------------------------------------------------------------
(* The order of the spawns *)

Queries == Primaries \cup Secondaries

\* the stage a subprocess belongs to
Stage(i) ==
    CASE children[i].role \in {"python", "pythonAlt"} -> 1
      [] children[i].role = "pip" -> 2
      [] children[i].role = "server" -> 3

\* a version query of that interpreter name closed with code 0 before i was spawned
QuerySucceededBefore(i) ==
    \E q \in Queries : q < i /\ ClosedWith(q, 0) /\ children[q].cmd = children[i].cmd

\* C14: the subprocesses are spawned in the order version query, installer,
\* server. The installer is spawned only after a version query closed with
\* code 0; the server only after that and, when an installer was requested,
\* after the installer closed with code 0. Without --install or -i there is
\* never an installer.
C14_SpawnOrder ==
    /\ \A j, k \in 1..Len(children) : j < k => Stage(j) <= Stage(k)
    /\ \A i \in Installers : shouldInstall /\ QuerySucceededBefore(i)
    /\ \A s \in Servers :
          /\ QuerySucceededBefore(s)
          /\ shouldInstall => \E i \in Installers : i < s
          /\ \A i \in Installers : i < s /\ ClosedWith(i, 0)
    /\ ~shouldInstall => Installers = {}

C14_Witness ==
    /\ \E s \in Servers : children[s].status = "running"
    /\ Installers # {}
    /\ PrimaryFailed

----------------------------------------------------------------------------
(* Supervising the server *)

Settled(name) == promise[name].state \in {"resolved", "rejected"}

\* C16: once the server child is spawned and the signal listeners are
\* registered, a received signal does not end the launcher: the launcher has
\* exited only after the server child's 'close' event (which a failed spawn
\* emits right after 'error') has settled runServer's promise, never while
\* the server child is running, and never straight from a signal listener.
C16_SignalsOnlyForward ==
    \A s \in Servers :
        exit.done =>
            /\ children[s].status = "closed"
            /\ Settled("runServer")
            /\ \/ exit.how = "process.exit" /\ promise["runServer"].state = "rejected"
               \/ exit.how = "natural" /\ pc = "returned"

C16_Witness ==
    /\ exit.done
    /\ \E k \in 1..Len(received) : received[k].active
    /\ delivered # <<>>
    /\ \E s \in Servers : children[s].status = "closed"

SignalKilled == Error("Servidor terminado", null)

\* C17: a server child that was ended by a signal closes with a null code;
\* runServer rejects with it, and the launcher, once it has exited, has
\* reported the error and exited with status 1, never 0.
C17_SignalDeathFails ==
    \A s \in Servers :
        ClosedWith(s, null) =>
            /\ Rejected("runServer", SignalKilled)
            /\ exit.done => exit.code = 1 /\ report(SignalKilled) \in written

C17_Witness ==
    /\ exit.done
    /\ delivered # <<>>
    /\ \E s \in Servers : ClosedWith(s, null)

\* C18: when server.py is missing no subprocess is ever spawned, and main,
\* once the launcher has exited on its account, has reported the missing file
\* and exited with status 1, with or without --install.
C18_MissingServerFailsFirst ==
    ~serverExists =>
        /\ children = <<>>
        /\ ~helpRequested /\ exit.done =>
              exit.code = 1 /\ report(ServerMissing) \in written

C18_Witness ==
    /\ ~serverExists
    /\ shouldInstall /\ requirementsExists
    /\ exit.done /\ exit.code = 1

----------------------------------------------------------------------------
(* Termination *)

\* C15: given that every spawned subprocess ends, every run of the launcher
\* comes to an end, with exit status 0 or 1; and it never ends by the event
\* loop running empty while main still waits on a promise.
C15_Terminates ==
    /\ <>exit.done
    /\ [](exit.done =>
            /\ exit.code \in {0, 1}
            /\ exit.how = "natural" => pc = "returned")

C15_Witness ==
    /\ exit.done
    /\ Secondaries # {}
    /\ \A i \in 1..Len(children) : children[i].status = "closed"
    /\ \E i \in Secondaries : children[i].code # 0

----------------------------------------------------------------------------
(* The server child's streams *)

====
